---- MODULE Spec2Model ----
(***************************************************************************)
(* SwapTag fee backend: the four Flask applications of the repository      *)
(*   src/app.py                    (_fx_cache keyed by base currency)      *)
(*   src/Backendside/__init__.py   (FX_CACHE, one slot)                    *)
(*   src/Backendside/appInfo.py    (FX_CACHE, one entry per pair and one   *)
(*                                  shared timestamp)                      *)
(*   src/Backendside/newFeature.py (the chat endpoints alone)              *)
(* Each application is its own process with its own module-level cache;    *)
(* the variable deployed says which of them is serving.                    *)
(*                                                                         *)
(* Money is counted in units of 1/10000 of a currency unit ("pips"), a     *)
(* percent fee in units of 1/10000 (0.005 is 50), time in seconds.  The    *)
(* request amounts are multiples of 0.20, for which every product          *)
(* amount * percent_fee is a whole number of pips, so that round(x, 6) of  *)
(* the code changes nothing and round(x, 2) is RoundCents.                 *)
(***************************************************************************)
EXTENDS Integers, Sequences, FiniteSets, TLC

(* ------------------------------ bounds --------------------------------- *)
\* the clock reads StartTime + k * TickStep, k = 0 .. MaxTicks
StartTime == 1000
TickStep == 150
MaxTicks == 2
\* the largest request amount, in whole currency units
MaxDollars == 100
\* the stores are capped so that the model stays finite
MaxReferrals == 1
MaxMessages == 4
\* the worker threads that serve requests at the same time
NumThreads == 2

(* ------------------------- program constants --------------------------- *)
FX_TTL_SECONDS == 300
GET_EXCHANGE_TTL == 300
FX_CACHE_TTL == 300
\* REFERRAL_BONUS_RATE = 0.10, in 1/10000
REFERRAL_BONUS_RATE == 1000
\* the rate used when the upstream answer carries no rate: .get("rate", 1)
DEFAULT_RATE == 1

(* ------------------------------ domains -------------------------------- *)
\* pips in one currency unit: 100 cents of 100 pips
Pip == 100 * 100

Apps == {"app", "init", "appInfo", "newFeature"}

Bases == {"USD", "EUR"}

\* "XXX" is a destination no rate table lists
Dests == {"NGN", "XXX"}

Supported == {"NGN", "USD", "EUR"}

\* the destinations asked of the pair-keyed applications; a pair the upstream
\* does not serve shows as an answer without a rate (outcome nokey)
PairDests == {"NGN"}

Amounts == {0 - Pip, 0, 2000, MaxDollars * Pip}

FeePlanIds == {1, 2, 3, 999}

SwapTags == {"", "TEAMEX"}

Threads == 1..NumThreads

Times == {StartTime + k * TickStep : k \in 0..MaxTicks}

\* what one upstream HTTP call can do:
\*   ok       2xx, JSON body with the expected keys
\*   nokey    2xx, JSON body without the rate / rates key
\*   errjson  non-2xx status, JSON error body
\*   exc      connection error, timeout or a body that is no JSON
FxOutcomes == {"ok", "nokey", "errjson", "exc"}

\* the upstream never answers: a call with a timeout raises (as exc does), a
\* call without one never returns
Hang == "hang"

PairKey(from, to) == from \o ":" \o to

(* --------------------------- the upstreams ----------------------------- *)
\* The FX provider's rate for a pair at time t; it moves with time, so that
\* two fetches at different times are told apart.
UpstreamRate(from, to, t) ==
    (IF from = "USD" THEN 1480 ELSE 1600) + ((t - StartTime) \div TickStep)

\* A rate table as fetched: the base it was fetched for and when.
EmptyTable == [base |-> "", at |-> 0 - 1]

Table(base, t) == [base |-> base, at |-> t]

TableKeys(table) == IF table = EmptyTable THEN {} ELSE Supported

TableHas(table, to) == to \in TableKeys(table)

TableGet(table, to) ==
    IF TableHas(table, to) THEN UpstreamRate(table.base, to, table.at) ELSE 0

(* ----------------------------- arithmetic ------------------------------ *)
\* round half to even to a multiple of unit (Python's round)
RoundTo(x, unit) ==
    LET q == x \div unit
        r == x % unit
    IN  IF 2 * r < unit THEN q * unit
        ELSE IF 2 * r > unit THEN (q + 1) * unit
        ELSE IF q % 2 = 0 THEN q * unit ELSE (q + 1) * unit

\* round(x, 2): pips to whole cents
RoundCents(x) == RoundTo(x, 100)

\* amount * percent, percent in 1/10000
PercentOf(amount, percent) == (amount * percent) \div 10000

(* ------------------------------ state ---------------------------------- *)
VARIABLES
    deployed,       \* which application serves the requests
    BASE_URL,       \* whether the BASE_URL environment variable is set
    now,            \* time.time()
    fx_cache,       \* app.py: _fx_cache
    FX_CACHE,       \* Backendside/__init__.py: FX_CACHE
    FX_CACHE_PAIRS, \* Backendside/appInfo.py: FX_CACHE
    referrals,      \* the referrals table
    chat_messages,  \* the chat_messages table
    openai_ready,   \* OPENAI_API_KEY and openai: the key is set and the
                    \* client library was imported
    resp,           \* the last request and its response
    th              \* the requests in progress, one per worker thread

vars == <<deployed, BASE_URL, now, fx_cache, FX_CACHE, FX_CACHE_PAIRS, referrals,
          chat_messages, openai_ready, resp, th>>

\* A response; the fields a handler does not set keep these values.
\* rateKey and rateAt say for which key and when the carried rate (or rate
\* table) was fetched from the upstream; fxOutcome is how the FX call of
\* the request ended ("" when none was made); destAbsent says that the rate
\* lookup was answered without a rate for the requested destination.
NoResp ==
    [handler |-> "", seq |-> 0, at |-> 0, status |-> 0, error |-> "",
     reqKey |-> "", to |-> "", hasRate |-> FALSE, rate |-> 0, rateKey |-> "",
     rateAt |-> 0 - 1, fxCalls |-> 0, fxOutcome |-> "", destAbsent |-> FALSE,
     feeCalls |-> 0,
     amount |-> 0, fee_plan_id |-> 0, fixed_fee |-> 0, percent_fee |-> 0,
     total_fee |-> 0, net_amount |-> 0, converted |-> 0, supported |-> {},
     swap_tag |-> "", bonus |-> 0, wrote |-> 0, count |-> 0,
     cacheChanged |-> FALSE,
     feeOutcome |-> "", hasBonus |-> FALSE, hung |-> FALSE, listed |-> <<>>,
     message |-> "", reply |-> "", dbFailed |-> FALSE, limit |-> 0]

Reply(handler, fields) ==
    fields @@ [NoResp EXCEPT !.handler = handler, !.seq = 1 - resp.seq, !.at = now]

(* =========================== src/app.py ================================ *)
\* FEES: fixed_fee in pips, percent_fee in 1/10000
FEES ==
    [id \in {1, 2, 3} |->
        IF id = 1 THEN [name |-> "Basic", fixed_fee |-> 5000, percent_fee |-> 50]
        ELSE IF id = 2 THEN [name |-> "Standard", fixed_fee |-> 2500, percent_fee |-> 35]
        ELSE [name |-> "Pro", fixed_fee |-> 1000, percent_fee |-> 20]]

\* _fx_cache = {"rates": {}, "base": "USD", "ts": 0}
FxCacheInit == [rates |-> EmptyTable, base |-> "USD", ts |-> 0]

\* the freshness test of get_fx_rates
FxFresh(cache, base, t) ==
    /\ cache.rates # EmptyTable
    /\ cache.base = base
    /\ t - cache.ts < FX_TTL_SECONDS

\* get_fx_rates dropping the cached table when the upstream call fails
get_fx_rates_clearing(cache, base, t, out) ==
    IF FxFresh(cache, base, t)
    THEN [raised |-> FALSE, rates |-> cache.rates, base |-> cache.base,
          ts |-> cache.ts, cache |-> cache, calls |-> 0]
    ELSE IF out \in {"ok", "nokey"}
    THEN LET rates == IF out = "ok" THEN Table(base, t) ELSE EmptyTable
             c2 == [rates |-> rates, base |-> base, ts |-> t]
         IN  [raised |-> FALSE, rates |-> c2.rates, base |-> c2.base,
              ts |-> c2.ts, cache |-> c2, calls |-> 1]
    ELSE IF cache.rates # EmptyTable
    THEN [raised |-> FALSE, rates |-> cache.rates, base |-> cache.base,
          ts |-> cache.ts, cache |-> FxCacheInit, calls |-> 1]
    ELSE [raised |-> TRUE, rates |-> EmptyTable, base |-> base,
          ts |-> 0, cache |-> cache, calls |-> 1]

\* get_fx_rates(base) at time t, the upstream call (if made) ending in out.
\* raised: the exception is re-raised; cache: _fx_cache afterwards.
get_fx_rates(cache, base, t, out) ==
    IF FxFresh(cache, base, t)
    THEN [raised |-> FALSE, rates |-> cache.rates, base |-> cache.base,
          ts |-> cache.ts, cache |-> cache, calls |-> 0]
    ELSE IF out \in {"ok", "nokey"}
    THEN LET rates == IF out = "ok" THEN Table(base, t) ELSE EmptyTable
             c2 == [rates |-> rates, base |-> base, ts |-> t]
         IN  [raised |-> FALSE, rates |-> c2.rates, base |-> c2.base,
              ts |-> c2.ts, cache |-> c2, calls |-> 1]
    ELSE IF cache.rates # EmptyTable
    THEN [raised |-> FALSE, rates |-> cache.rates, base |-> cache.base,
          ts |-> cache.ts, cache |-> cache, calls |-> 1]
    ELSE [raised |-> TRUE, rates |-> EmptyTable, base |-> base,
          ts |-> 0, cache |-> cache, calls |-> 1]

\* calculate_fee with the fixed fee left out of the total
calculate_fee_without_fixed(amount, fee_plan_id) ==
    IF fee_plan_id \notin DOMAIN FEES
    THEN [raised |-> TRUE, fixed_fee |-> 0, percent_fee |-> 0,
          percent_amount |-> 0, total_fee |-> 0, net_amount |-> 0]
    ELSE LET plan == FEES[fee_plan_id]
             percent_amount == PercentOf(amount, plan.percent_fee)
         IN  [raised |-> FALSE, fixed_fee |-> plan.fixed_fee,
              percent_fee |-> plan.percent_fee,
              percent_amount |-> percent_amount,
              total_fee |-> percent_amount,
              net_amount |-> amount - percent_amount]

\* calculate_fee(amount, fee_plan_id); raised: ValueError("Invalid fee plan id")
calculate_fee(amount, fee_plan_id) ==
    IF fee_plan_id \notin DOMAIN FEES
    THEN [raised |-> TRUE, fixed_fee |-> 0, percent_fee |-> 0,
          percent_amount |-> 0, total_fee |-> 0, net_amount |-> 0]
    ELSE LET plan == FEES[fee_plan_id]
             percent_amount == PercentOf(amount, plan.percent_fee)
             total_fee == plan.fixed_fee + percent_amount
             net_amount == amount - total_fee
         IN  [raised |-> FALSE, fixed_fee |-> plan.fixed_fee,
              percent_fee |-> plan.percent_fee,
              percent_amount |-> percent_amount,
              total_fee |-> total_fee, net_amount |-> net_amount]

\* GET /api/fx/latest?base=
api_fx_latest(base, out) ==
    LET g == get_fx_rates(fx_cache, base, now, out)
    IN  /\ deployed = "app"
        /\ fx_cache' = g.cache
        /\ resp' = IF g.raised
             THEN Reply("api_fx_latest",
                    [status |-> 503, error |-> "unable_to_fetch_fx",
                     reqKey |-> base, fxCalls |-> g.calls, fxOutcome |-> IF g.calls = 1 THEN out ELSE ""])
             ELSE Reply("api_fx_latest",
                    [status |-> 200, reqKey |-> base,
                     hasRate |-> g.rates # EmptyTable,
                     rate |-> TableGet(g.rates, "NGN"),
                     rateKey |-> g.rates.base, rateAt |-> g.rates.at,
                     supported |-> TableKeys(g.rates),
                     fxCalls |-> g.calls, fxOutcome |-> IF g.calls = 1 THEN out ELSE "", cacheChanged |-> g.cache # fx_cache])
        /\ UNCHANGED <<th, chat_messages, openai_ready, deployed, BASE_URL, now, FX_CACHE, FX_CACHE_PAIRS, referrals>>

\* POST /api/calculate
api_calculate(amount, fee_plan_id) ==
    LET f == calculate_fee(amount, fee_plan_id)
    IN  /\ deployed = "app"
        /\ resp' = IF amount <= 0
             THEN Reply("api_calculate",
                    [status |-> 400, error |-> "invalid_amount",
                     amount |-> amount, fee_plan_id |-> fee_plan_id])
             ELSE IF f.raised
             THEN Reply("api_calculate",
                    [status |-> 400, error |-> "bad_request",
                     amount |-> amount, fee_plan_id |-> fee_plan_id])
             ELSE Reply("api_calculate",
                    [status |-> 200, amount |-> amount,
                     fee_plan_id |-> fee_plan_id,
                     fixed_fee |-> f.fixed_fee, percent_fee |-> f.percent_fee,
                     total_fee |-> f.total_fee, net_amount |-> f.net_amount])
        /\ UNCHANGED <<th, chat_messages, openai_ready, deployed, BASE_URL, now, fx_cache, FX_CACHE, FX_CACHE_PAIRS, referrals>>

\* POST /api/simulate of app.py.  calculate_fee is called outside the try
\* block: its ValueError leaves the handler and Flask answers 500.
api_simulate(amount, from_currency, to_currency, fee_plan_id, swap_tag, out) ==
    LET f == calculate_fee(amount, fee_plan_id)
        g == get_fx_rates(fx_cache, from_currency, now, out)
        rate == TableGet(g.rates, to_currency)
        req == [amount |-> amount, fee_plan_id |-> fee_plan_id,
                reqKey |-> from_currency, to |-> to_currency]
    IN  /\ deployed = "app"
        /\ IF f.raised
           THEN /\ fx_cache' = fx_cache
                /\ resp' = Reply("api_simulate",
                      req @@ [status |-> 500, error |-> "uncaught_ValueError"])
           ELSE /\ fx_cache' = g.cache
                /\ resp' =
                     IF g.raised
                     THEN Reply("api_simulate",
                            req @@ [status |-> 503, error |-> "fx_error",
                                    fxCalls |-> g.calls, fxOutcome |-> IF g.calls = 1 THEN out ELSE ""])
                     ELSE IF ~TableHas(g.rates, to_currency)
                     THEN Reply("api_simulate",
                            req @@ [status |-> 400, error |-> "unsupported_currency",
                                    destAbsent |-> TRUE,
                                    supported |-> TableKeys(g.rates),
                                    fxCalls |-> g.calls, fxOutcome |-> IF g.calls = 1 THEN out ELSE "",
                                    cacheChanged |-> g.cache # fx_cache])
                     ELSE Reply("api_simulate",
                            req @@ [status |-> 200, hasRate |-> TRUE, rate |-> rate,
                                    rateKey |-> g.rates.base, rateAt |-> g.rates.at,
                                    fixed_fee |-> f.fixed_fee,
                                    percent_fee |-> f.percent_fee,
                                    total_fee |-> f.total_fee,
                                    net_amount |-> f.net_amount,
                                    converted |-> f.net_amount * rate,
                                    swap_tag |-> swap_tag,
                                    fxCalls |-> g.calls, fxOutcome |-> IF g.calls = 1 THEN out ELSE "",
                                    cacheChanged |-> g.cache # fx_cache])
        /\ UNCHANGED <<th, chat_messages, openai_ready, deployed, BASE_URL, now, FX_CACHE, FX_CACHE_PAIRS, referrals>>

\* GET /api/referrals of app.py: the SWAPTAG_META map, no stored record
api_referrals ==
    /\ deployed = "app"
    /\ resp' = Reply("api_referrals", [status |-> 200])
    /\ UNCHANGED <<th, chat_messages, openai_ready, deployed, BASE_URL, now,
                   fx_cache, FX_CACHE, FX_CACHE_PAIRS, referrals>>

(* ==================== the upstream fee schedule ======================== *)
\* GET BASE_URL/fee: the outcomes of the call and the shapes of a 2xx body
\*   ok          Customer.products.<first>.services[0] = {rate, min}
\*   toplevel    no Customer.products; top-level rate and min
\*   noproducts  no Customer.products and no top-level fee keys
\*   noservices  the first product has an empty services list
\*   norate, nomin      services[0] lacks the key
\*   badrate, badmin    the value is no number
FeeShapes ==
    {"ok", "toplevel", "noproducts", "noservices", "norate", "nomin",
     "badrate", "badmin"}

FeeOutcomes == FeeShapes \cup {"errjson", "exc"}

\* the schedule the upstream serves: rate 0.01 and min 2.0
SERVICE_RATE == Pip \div 100
SERVICE_MIN == 2 * Pip

\* upstream outcomes possible for a pair: an unlisted destination has no rate,
\* and without BASE_URL the URL is invalid and requests.get raises
FxOutcomesFor(to) ==
    IF ~BASE_URL THEN {"exc"}
    ELSE IF to \in Supported THEN FxOutcomes \cup {Hang}
    ELSE (FxOutcomes \cup {Hang}) \ {"ok"}

FeeOutcomesFor == IF ~BASE_URL THEN {"exc"} ELSE FeeOutcomes \cup {Hang}

(* ============================ src/models.py ============================ *)
\* db_add overwriting the table with the new row
db_add_replacing(table, record) == <<record>>

\* db.add(record); db.commit(): the row is appended to its table
db_add(table, record) == Append(table, record)

TagOrNA(swap_tag) == IF swap_tag = "" THEN "N/A" ELSE swap_tag

(* ==================== src/Backendside/__init__.py ====================== *)
\* FX_CACHE = {"data": None, "timestamp": 0}.  data is the upstream JSON of
\* one pair: key and at say which pair it was fetched for and when.
NoData == [key |-> "", from |-> "", to |-> "", at |-> 0 - 1, hasRate |-> FALSE]

FxCacheSlotInit == [data |-> NoData, timestamp |-> 0]

DataRate(data) ==
    IF data.hasRate THEN UpstreamRate(data.from, data.to, data.at) ELSE 0

\* the freshness test of get_exchange: the requested pair is not looked at
SlotFresh(cache, t) ==
    /\ cache.data # NoData
    /\ t - cache.timestamp < GET_EXCHANGE_TTL

\* GET /api/exchange?from=&to=
get_exchange(from_currency, to_currency, out) ==
    LET key == PairKey(from_currency, to_currency)
        fetched == [key |-> key, from |-> from_currency, to |-> to_currency,
                    at |-> now, hasRate |-> out = "ok"]
        served(d, calls, changed) ==
            Reply("get_exchange",
              [status |-> 200, reqKey |-> key, to |-> to_currency,
               hasRate |-> d.hasRate, rate |-> DataRate(d),
               rateKey |-> d.key, rateAt |-> d.at,
               fxCalls |-> calls, fxOutcome |-> IF calls = 1 THEN out ELSE "",
               destAbsent |-> ~d.hasRate, cacheChanged |-> changed])
    IN  /\ deployed = "init"
        /\ out \in FxOutcomesFor(to_currency)
        /\ IF SlotFresh(FX_CACHE, now)
           THEN /\ FX_CACHE' = FX_CACHE
                /\ resp' = served(FX_CACHE.data, 0, FALSE)
           ELSE IF out \in {"ok", "nokey"}
           THEN /\ FX_CACHE' = [data |-> fetched, timestamp |-> now]
                /\ resp' = served(fetched, 1, FX_CACHE' # FX_CACHE)
           ELSE /\ FX_CACHE' = FX_CACHE
                /\ resp' = Reply("get_exchange",
                      [status |-> 500, error |-> "Failed to fetch exchange rate",
                       reqKey |-> key, to |-> to_currency, fxCalls |-> 1,
                       fxOutcome |-> out])
        /\ UNCHANGED <<th, chat_messages, openai_ready, deployed, BASE_URL, now, fx_cache, FX_CACHE_PAIRS, referrals>>

\* the fee fields simulate_transaction reads: service["rate"], service["min"];
\* raised: KeyError, IndexError or ValueError leaves the handler
StrictFee(shape) ==
    IF shape = "ok"
    THEN [raised |-> FALSE, percent_fee |-> SERVICE_RATE, fixed_fee |-> SERVICE_MIN]
    ELSE [raised |-> TRUE, percent_fee |-> 0, fixed_fee |-> 0]

\* POST /api/simulate of Backendside/__init__.py.  Neither upstream call has
\* a timeout, a raise_for_status or a try block, and FX_CACHE is not used.
simulate_transaction(amount, from_currency, to_currency, swap_tag, fxout, feeout) ==
    LET key == PairKey(from_currency, to_currency)
        tag == TagOrNA(swap_tag)
        fx_rate == IF fxout = "ok"
                   THEN UpstreamRate(from_currency, to_currency, now)
                   ELSE DEFAULT_RATE
        fee == StrictFee(feeout)
        total_fee == PercentOf(amount, fee.percent_fee) + fee.fixed_fee
        net_amount == amount - total_fee
        converted_amount == RoundCents(net_amount * fx_rate)
        referral_bonus == RoundCents(PercentOf(total_fee, REFERRAL_BONUS_RATE))
        req == [amount |-> amount, reqKey |-> key, to |-> to_currency,
                swap_tag |-> tag]
        new_referral ==
            [id |-> Len(referrals) + 1, swap_tag |-> tag, amount |-> amount,
             fee_collected |-> total_fee, referral_bonus |-> referral_bonus,
             from_currency |-> from_currency, to_currency |-> to_currency,
             exchange_rate |-> fx_rate, converted_amount |-> converted_amount,
             timestamp |-> now]
    IN  /\ deployed = "init"
        /\ fxout \in FxOutcomesFor(to_currency)
        /\ feeout \in FeeOutcomesFor
        /\ IF amount <= 0
           THEN /\ referrals' = referrals
                /\ resp' = Reply("simulate_transaction",
                      req @@ [status |-> 400,
                              error |-> "Amount must be greater than zero"])
           ELSE IF fxout = Hang
           THEN /\ referrals' = referrals
                /\ resp' = Reply("simulate_transaction",
                      req @@ [hung |-> TRUE, fxCalls |-> 1, fxOutcome |-> fxout])
           ELSE IF fxout = "exc"
           THEN /\ referrals' = referrals
                /\ resp' = Reply("simulate_transaction",
                      req @@ [status |-> 500, error |-> "uncaught", fxCalls |-> 1, fxOutcome |-> fxout])
           ELSE IF feeout = Hang
           THEN /\ referrals' = referrals
                /\ resp' = Reply("simulate_transaction",
                      req @@ [hung |-> TRUE, fxCalls |-> 1, fxOutcome |-> fxout,
                              feeCalls |-> 1, feeOutcome |-> feeout])
           ELSE IF feeout = "exc"
           THEN /\ referrals' = referrals
                /\ resp' = Reply("simulate_transaction",
                      req @@ [status |-> 500, error |-> "uncaught",
                              fxCalls |-> 1, fxOutcome |-> fxout, feeCalls |-> 1,
                              feeOutcome |-> feeout])
           ELSE IF feeout \in {"errjson", "noproducts", "toplevel"}
           THEN /\ referrals' = referrals
                /\ resp' = Reply("simulate_transaction",
                      req @@ [status |-> 500, error |-> "No fee data found",
                              fxCalls |-> 1, fxOutcome |-> fxout, feeCalls |-> 1,
                              feeOutcome |-> feeout])
           ELSE IF fee.raised
           THEN /\ referrals' = referrals
                /\ resp' = Reply("simulate_transaction",
                      req @@ [status |-> 500, error |-> "uncaught",
                              fxCalls |-> 1, fxOutcome |-> fxout, feeCalls |-> 1,
                              feeOutcome |-> feeout])
           ELSE /\ Len(referrals) < MaxReferrals
                /\ referrals' = db_add(referrals, new_referral)
                /\ resp' = Reply("simulate_transaction",
                      req @@ [status |-> 200, hasRate |-> TRUE, rate |-> fx_rate,
                              destAbsent |-> fxout = "nokey",
                              rateKey |-> IF fxout = "ok" THEN key ELSE "",
                              rateAt |-> IF fxout = "ok" THEN now ELSE 0 - 1,
                              percent_fee |-> fee.percent_fee,
                              fixed_fee |-> fee.fixed_fee,
                              total_fee |-> total_fee,
                              net_amount |-> net_amount,
                              converted |-> converted_amount,
                              bonus |-> referral_bonus, hasBonus |-> TRUE,
                              feeOutcome |-> feeout,
                              fxCalls |-> 1, fxOutcome |-> fxout, feeCalls |-> 1, wrote |-> 1])
        /\ UNCHANGED <<th, chat_messages, openai_ready, deployed, BASE_URL, now, fx_cache, FX_CACHE, FX_CACHE_PAIRS>>

\* GET /api/referrals of Backendside/__init__.py
get_referrals ==
    /\ deployed = "init"
    /\ resp' = Reply("get_referrals", [status |-> 200,
                                       count |-> Len(referrals),
                                       listed |-> referrals])
    /\ UNCHANGED <<th, chat_messages, openai_ready, deployed, BASE_URL, now, fx_cache, FX_CACHE, FX_CACHE_PAIRS, referrals>>

(* ==================== src/Backendside/appInfo.py ======================= *)
AllPairs == {PairKey(b, d) : b \in Bases, d \in PairDests}

\* FX_CACHE = {"data": {}, "timestamp": 0}: data maps a pair to {"rate": r};
\* at says when that entry was fetched (the code keeps no such field: it
\* keeps the one timestamp of the last fetch of any pair).
NoEntry == [rate |-> 0, at |-> 0 - 1]

FxCachePairsInit == [data |-> [k \in AllPairs |-> NoEntry], timestamp |-> 0]

\* the freshness test of post_exchange
PairFresh(cache, key, t) ==
    /\ cache.data[key] # NoEntry
    /\ t - cache.timestamp < FX_CACHE_TTL

\* the defensive parsing of the fee schedule: (percent_fee, fixed_fee)
LenientFee(shape) ==
    IF shape \in {"ok", "toplevel"}
    THEN [percent_fee |-> SERVICE_RATE, fixed_fee |-> SERVICE_MIN]
    ELSE IF shape \in {"nomin", "badmin"}
    THEN [percent_fee |-> SERVICE_RATE, fixed_fee |-> 0]
    ELSE IF shape = "norate"
    THEN [percent_fee |-> 0, fixed_fee |-> SERVICE_MIN]
    ELSE [percent_fee |-> 0, fixed_fee |-> 0]

\* net_amount = max(0.0, round(amount - total_fee, 2))
ClampedNet(amount, total_fee) ==
    IF RoundCents(amount - total_fee) > 0 THEN RoundCents(amount - total_fee) ELSE 0

\* POST /api/exchange of Backendside/appInfo.py
post_exchange(amount, from_currency, to_currency, swap_tag, fxout, feeout) ==
    LET pair_key == PairKey(from_currency, to_currency)
        tag == TagOrNA(swap_tag)
        cached == FX_CACHE_PAIRS.data[pair_key]
        hit == PairFresh(FX_CACHE_PAIRS, pair_key, now)
        fetched == [rate |-> IF fxout = "ok"
                             THEN UpstreamRate(from_currency, to_currency, now)
                             ELSE DEFAULT_RATE,
                    at |-> now]
        entry == IF hit THEN cached ELSE fetched
        cache2 == IF hit THEN FX_CACHE_PAIRS
                  ELSE [data |-> [FX_CACHE_PAIRS.data EXCEPT ![pair_key] = fetched],
                        timestamp |-> now]
        calls == IF hit THEN 0 ELSE 1
        isDefault == (~hit /\ fxout # "ok") \/ (hit /\ cached.rate = DEFAULT_RATE)
        fee == LenientFee(feeout)
        total_fee == RoundCents(PercentOf(amount, fee.percent_fee) + fee.fixed_fee)
        net_amount == ClampedNet(amount, total_fee)
        converted_amount == RoundCents(net_amount * entry.rate)
        referral_bonus == RoundCents(PercentOf(total_fee, REFERRAL_BONUS_RATE))
        req == [amount |-> amount, reqKey |-> pair_key, to |-> to_currency,
                swap_tag |-> tag]
    IN  /\ deployed = "appInfo"
        /\ fxout \in FxOutcomesFor(to_currency)
        /\ feeout \in FeeOutcomesFor
        /\ IF ~BASE_URL
           THEN /\ FX_CACHE_PAIRS' = FX_CACHE_PAIRS
                /\ resp' = Reply("post_exchange",
                      req @@ [status |-> 500, error |-> "BASE_URL not configured"])
           ELSE IF amount <= 0
           THEN /\ FX_CACHE_PAIRS' = FX_CACHE_PAIRS
                /\ resp' = Reply("post_exchange",
                      req @@ [status |-> 400,
                              error |-> "Amount must be greater than zero"])
           ELSE IF ~hit /\ fxout \in {"errjson", "exc", Hang}
           THEN /\ FX_CACHE_PAIRS' = FX_CACHE_PAIRS
                /\ resp' = Reply("post_exchange",
                      req @@ [status |-> 500,
                              error |-> "Failed to fetch exchange rate",
                              fxCalls |-> 1, fxOutcome |-> fxout])
           ELSE IF feeout \in {"errjson", "exc", Hang}
           THEN /\ FX_CACHE_PAIRS' = cache2
                /\ resp' = Reply("post_exchange",
                      req @@ [status |-> 500,
                              error |-> "Failed to fetch fee config",
                              fxCalls |-> calls,
                              fxOutcome |-> IF hit THEN "" ELSE fxout, feeCalls |-> 1,
                              feeOutcome |-> feeout,
                              cacheChanged |-> cache2 # FX_CACHE_PAIRS])
           ELSE /\ FX_CACHE_PAIRS' = cache2
                /\ resp' = Reply("post_exchange",
                      req @@ [status |-> 200, hasRate |-> TRUE,
                              destAbsent |-> isDefault,
                              rate |-> entry.rate,
                              rateKey |-> IF isDefault THEN "" ELSE pair_key,
                              rateAt |-> entry.at,
                              percent_fee |-> fee.percent_fee,
                              fixed_fee |-> fee.fixed_fee,
                              total_fee |-> total_fee,
                              net_amount |-> net_amount,
                              converted |-> converted_amount,
                              bonus |-> referral_bonus, hasBonus |-> TRUE,
                              feeOutcome |-> feeout,
                              fxCalls |-> calls,
                              fxOutcome |-> IF hit THEN "" ELSE fxout, feeCalls |-> 1,
                              cacheChanged |-> cache2 # FX_CACHE_PAIRS])
        /\ UNCHANGED <<th, chat_messages, openai_ready, deployed, BASE_URL, now, fx_cache, FX_CACHE, referrals>>

\* GET /api/referrals of Backendside/appInfo.py: the empty structure
get_referrals_appInfo ==
    /\ deployed = "appInfo"
    /\ resp' = Reply("get_referrals", [status |-> 200])
    /\ UNCHANGED <<th, chat_messages, openai_ready, deployed, BASE_URL, now,
                   fx_cache, FX_CACHE, FX_CACHE_PAIRS, referrals>>

(* ============ the chat endpoints: newFeature.py, app.py, appInfo.py ===== *)
ChatApps == {"app", "appInfo", "newFeature"}

\* the texts a chat request carries
Texts == {"", "fees"}

\* the payload key the text is sent under
PayloadKeys == {"message", "query"}

\* limit of GET /api/chat/history: int(request.args.get("limit", 200))
DEFAULT_LIMIT == 200

Limits == {0 - 1, 0, 1, DEFAULT_LIMIT}

\* the payload key chat() reads the text from
UserMsgKey == IF deployed = "newFeature" THEN "message" ELSE "query"

\* the keyword ChatMessage(...) is given the metadata under; the column of
\* models.py is metadata, and the constructor raises TypeError for a keyword
\* that is no attribute of the class
MetadataKeyword == IF deployed = "newFeature" THEN "metadata" ELSE "metaData"

\* fallback_respond: the canned reply chosen by keyword
fallback_respond(user_message) ==
    IF user_message = "fees" THEN "canned:fees" ELSE "canned:default"

\* call_openai_chat: the reply of the chat service
call_openai_chat(user_message) == "openai:" \o user_message

\* POST /api/chat.  ai: how the call of the chat service ends (none when it
\* is not called); db1, db2: how the two commits end.
chat(key, text, swap_tag, ai, db1, db2) ==
    LET user_msg == IF key = UserMsgKey THEN text ELSE ""
        assistant_text ==
            IF openai_ready /\ ai = "ok" THEN call_openai_chat(user_msg)
            ELSE fallback_respond(user_msg)
        user_record ==
            [id |-> Len(chat_messages) + 1, swap_tag |-> swap_tag,
             role |-> "user", content |-> user_msg, timestamp |-> now]
        assistant_record ==
            [id |-> Len(chat_messages) + 2, swap_tag |-> swap_tag,
             role |-> "assistant", content |-> assistant_text,
             timestamp |-> now]
        req == [message |-> IF key = "message" THEN text ELSE "",
                swap_tag |-> swap_tag]
    IN  /\ deployed \in ChatApps
        /\ ai \in (IF openai_ready THEN {"ok", "exc"} ELSE {"none"})
        /\ IF user_msg = ""
           THEN /\ chat_messages' = chat_messages
                /\ resp' = Reply("chat",
                      req @@ [status |-> 400, error |-> "message_required"])
           ELSE IF MetadataKeyword # "metadata"
           THEN /\ chat_messages' = chat_messages
                /\ resp' = Reply("chat",
                      req @@ [status |-> 500, error |-> "uncaught_TypeError"])
           ELSE IF db1 = "fail"
           THEN /\ chat_messages' = chat_messages
                /\ resp' = Reply("chat",
                      req @@ [status |-> 500, error |-> "uncaught",
                              dbFailed |-> TRUE])
           ELSE IF db2 = "fail"
           THEN /\ Len(chat_messages) + 1 <= MaxMessages
                /\ chat_messages' = db_add(chat_messages, user_record)
                /\ resp' = Reply("chat",
                      req @@ [status |-> 500, error |-> "uncaught",
                              dbFailed |-> TRUE, wrote |-> 1])
           ELSE /\ Len(chat_messages) + 2 <= MaxMessages
                /\ chat_messages' =
                     db_add(db_add(chat_messages, user_record), assistant_record)
                /\ resp' = Reply("chat",
                      req @@ [status |-> 200, reply |-> assistant_text,
                              wrote |-> 2])
        /\ UNCHANGED <<th, openai_ready, deployed, BASE_URL, now,
                       fx_cache, FX_CACHE, FX_CACHE_PAIRS, referrals>>

\* the query without its filter
FilteredNothing(swap_tag) == 1..Len(chat_messages)

\* query.filter(ChatMessage.swap_tag == swap_tag), applied when swap_tag is
\* given: the rows (by position) the query selects
Filtered(swap_tag) ==
    {i \in 1..Len(chat_messages) :
        swap_tag = "" \/ chat_messages[i].swap_tag = swap_tag}

\* order_by(ChatMessage.timestamp.asc()): the orders the database may return
\* the rows in; rows of equal timestamp come in any order
Orderings(rows) ==
    {f \in [1..Cardinality(rows) -> rows] :
        /\ \A i, j \in 1..Cardinality(rows) : i # j => f[i] # f[j]
        /\ \A i, j \in 1..Cardinality(rows) :
              i < j => chat_messages[f[i]].timestamp <= chat_messages[f[j]].timestamp}

\* .limit(limit)
Limited(f, limit) ==
    [k \in 1..(IF limit < Len(f) THEN limit ELSE Len(f)) |-> chat_messages[f[k]]]

\* GET /api/chat/history?swap_tag=&limit=; a negative LIMIT is an error of
\* the database
chat_history(swap_tag, limit) ==
    /\ deployed \in ChatApps
    /\ IF limit < 0
       THEN resp' = Reply("chat_history",
                      [status |-> 500, error |-> "uncaught",
                       swap_tag |-> swap_tag, limit |-> limit])
       ELSE \E f \in Orderings(Filtered(swap_tag)) :
               resp' = Reply("chat_history",
                         [status |-> 200, swap_tag |-> swap_tag, limit |-> limit,
                          listed |-> Limited(f, limit),
                          count |-> Len(Limited(f, limit))])
    /\ UNCHANGED <<th, chat_messages, openai_ready, deployed, BASE_URL, now,
                   fx_cache, FX_CACHE, FX_CACHE_PAIRS, referrals>>

(* ========================= the state machine =========================== *)
\* a worker thread between requests
Idle == [pc |-> "idle", key |-> "", t0 |-> 0, out |-> "", status |-> 0,
         got |-> NoData, ret |-> NoData]

\* time passes between requests
Tick ==
    /\ now + TickStep <= StartTime + MaxTicks * TickStep
    /\ now' = now + TickStep
    /\ UNCHANGED <<th, chat_messages, openai_ready, deployed, BASE_URL, fx_cache, FX_CACHE, FX_CACHE_PAIRS, referrals, resp>>

Init ==
    /\ deployed \in Apps
    /\ BASE_URL \in (IF deployed \in {"app", "newFeature"} THEN {TRUE} ELSE BOOLEAN)
    /\ now = StartTime
    /\ fx_cache = FxCacheInit
    /\ FX_CACHE = FxCacheSlotInit
    /\ FX_CACHE_PAIRS = FxCachePairsInit
    /\ referrals = <<>>
    /\ chat_messages = <<>>
    /\ openai_ready \in (IF deployed \in ChatApps THEN BOOLEAN ELSE {FALSE})
    /\ resp = NoResp
    /\ th = [t \in Threads |-> Idle]

\* the requests with inputs from the given sets: amounts, fee plan ids,
\* swap tags, outcomes of the FX call, outcomes of the fee call
Requests(A, P, T, FX, FEE) ==
    \/ \E base \in Bases, out \in FX : api_fx_latest(base, out)
    \/ \E amount \in A, id \in P : api_calculate(amount, id)
    \/ \E amount \in A, from \in Bases, to \in Dests, id \in P,
          tag \in T, out \in FX :
            api_simulate(amount, from, to, id, tag, out)
    \/ \E from \in Bases, to \in PairDests, out \in FX :
            get_exchange(from, to, out)
    \/ \E amount \in A, from \in Bases, to \in PairDests, tag \in T,
          fxout \in FX, feeout \in FEE :
            simulate_transaction(amount, from, to, tag, fxout, feeout)
    \/ get_referrals
    \/ api_referrals
    \/ get_referrals_appInfo
    \/ \E amount \in A, from \in Bases, to \in PairDests, tag \in T,
          fxout \in FX, feeout \in FEE :
            post_exchange(amount, from, to, tag, fxout, feeout)

\* Spec: the rate caches over time.  Every FX outcome, the clock ticking;
\* one valid amount and the invalid amount 0, one fee plan, the fee call
\* succeeding or failing.
Next ==
    \/ Tick
    \/ Requests({0, MaxDollars * Pip}, {1}, {""}, FxOutcomes, {"ok", "exc"})

\* the applications that convert amounts, the chat service left unconfigured
InitFx == Init /\ deployed # "newFeature" /\ openai_ready = FALSE

Spec == InitFx /\ [][Next]_vars

\* SpecFees: the fee arithmetic and the validation.  Every amount, fee plan
\* id and swap tag at one instant, the FX call succeeding or failing, the
\* fee schedule complete, without its min field, or not served.
NextFees ==
    Requests(Amounts, FeePlanIds, SwapTags, {"ok", "exc"}, {"ok", "nomin", "exc"})

SpecFees == InitFx /\ [][NextFees]_vars

\* SpecHang: upstreams that answer or never answer
NextHang ==
    \/ Tick
    \/ Requests({MaxDollars * Pip}, {1}, {""}, {"ok", Hang}, {"ok", Hang})

SpecHang == InitFx /\ [][NextHang]_vars

\* SpecFrame: the rate caches over time under every outcome of the FX
\* call, for one valid request whose fee call succeeds
NextFrame ==
    \/ Tick
    \/ Requests({MaxDollars * Pip}, {1}, {""}, FxOutcomes \cup {Hang}, {"ok"})

SpecFrame == InitFx /\ [][NextFrame]_vars

\* SpecShapes: every shape of the fee schedule, for one valid request
NextShapes == Requests({MaxDollars * Pip}, {1}, {""}, {"ok"}, FeeOutcomes)

SpecShapes == InitFx /\ [][NextShapes]_vars

\* SpecStores: the writes to the two tables at one instant.  The simulations
\* of __init__.py that write referrals and their listing, the chat requests
\* that write chat messages, with every outcome of the chat service and of
\* the two commits.
NextStores ==
    \/ \E amount \in {0, MaxDollars * Pip}, from \in Bases, tag \in SwapTags,
          feeout \in {"ok", "exc"} :
            simulate_transaction(amount, from, "NGN", tag, "ok", feeout)
    \/ get_referrals
    \/ \E key \in PayloadKeys, text \in Texts, tag \in SwapTags,
          ai \in {"ok", "exc", "none"},
          db \in {<<"ok", "ok">>, <<"fail", "ok">>, <<"ok", "fail">>} :
            chat(key, text, tag, ai, db[1], db[2])

SpecStores == Init /\ [][NextStores]_vars

\* SpecHistory: the chat history over time, the chat service unconfigured.
\* Chat requests that carry a text under the key the application reads, both
\* commits succeeding, and the listings.
NextHistory ==
    \/ Tick
    \/ \E tag \in SwapTags : chat(UserMsgKey, "fees", tag, "none", "ok", "ok")
    \/ \E tag \in SwapTags, limit \in Limits : chat_history(tag, limit)

InitHistory == Init /\ deployed \in ChatApps /\ openai_ready = FALSE

SpecHistory == InitHistory /\ [][NextHistory]_vars

(* ===================== requests served concurrently ==================== *)
\* The rate lookups of the three applications, one statement per step, run
\* by NumThreads worker threads of the same process (Flask serves threaded).
\* A step is one statement that reads or writes the module-level cache:
\*   app.py get_fx_rates          check 49, return 50/66/70, update 65
\*   __init__.py get_exchange     check 48, return 49/60, stores 58 and 59
\*   appInfo.py post_exchange     check 90-91, stores 101 and 102
\* The rest of a handler touches no shared state.  t0 is the thread's local
\* now, got what it fetched, ret what it returns.

\* what a thread reads from the cache when it returns
CacheAsData ==
    IF deployed = "app"
    THEN [key |-> fx_cache.rates.base, from |-> fx_cache.base, to |-> "",
          at |-> fx_cache.rates.at, hasRate |-> fx_cache.rates # EmptyTable]
    ELSE FX_CACHE.data

Keys == IF deployed = "app" THEN Bases ELSE AllPairs

KeyFrom(key) == IF key \in {"USD", PairKey("USD", "NGN")} THEN "USD" ELSE "EUR"

Fetched(key, t, out) ==
    IF deployed = "app"
    THEN [key |-> IF out = "ok" THEN key ELSE "", from |-> key, to |-> "",
          at |-> IF out = "ok" THEN t ELSE 0 - 1, hasRate |-> out = "ok"]
    ELSE [key |-> key, from |-> KeyFrom(key), to |-> "NGN", at |-> t,
          hasRate |-> out = "ok"]

Others == <<deployed, BASE_URL, now, referrals, chat_messages, openai_ready, resp>>

\* a request arrives: now = time.time()
t_begin(t, key) ==
    /\ th[t].pc \in {"idle", "done"}
    /\ key \in Keys
    /\ th' = [th EXCEPT ![t] = [Idle EXCEPT !.pc = "check", !.key = key, !.t0 = now]]
    /\ UNCHANGED <<Others, fx_cache, FX_CACHE, FX_CACHE_PAIRS>>

\* the freshness test
t_check(t) ==
    LET me == th[t]
        hit == IF deployed = "app" THEN FxFresh(fx_cache, me.key, me.t0)
               ELSE IF deployed = "init" THEN SlotFresh(FX_CACHE, me.t0)
               ELSE PairFresh(FX_CACHE_PAIRS, me.key, me.t0)
        cached == FX_CACHE_PAIRS.data[me.key]
    IN  /\ me.pc = "check"
        /\ th' = [th EXCEPT ![t] =
             IF ~hit THEN [me EXCEPT !.pc = "call"]
             ELSE IF deployed = "appInfo"
             THEN [me EXCEPT !.pc = "done", !.status = 200,
                     !.ret = [key |-> me.key, from |-> KeyFrom(me.key),
                              to |-> "NGN", at |-> cached.at,
                              hasRate |-> cached.rate # DEFAULT_RATE]]
             ELSE [me EXCEPT !.pc = "ret"]]
        /\ UNCHANGED <<Others, fx_cache, FX_CACHE, FX_CACHE_PAIRS>>

\* the upstream call returns
t_call(t, out) ==
    LET me == th[t]
    IN  /\ me.pc = "call"
        /\ th' = [th EXCEPT ![t] =
             IF out \in {"ok", "nokey"}
             THEN [me EXCEPT !.pc = "store", !.out = out,
                     !.got = Fetched(me.key, me.t0, out)]
             ELSE IF deployed = "app" /\ fx_cache.rates # EmptyTable
             THEN [me EXCEPT !.pc = "ret", !.out = out]
             ELSE [me EXCEPT !.pc = "done", !.out = out,
                     !.status = IF deployed = "app" THEN 503 ELSE 500]]
        /\ UNCHANGED <<Others, fx_cache, FX_CACHE, FX_CACHE_PAIRS>>

\* app.py 65: _fx_cache.update(...), one write;
\* the other two: the write of the data (58, 101)
t_store(t) ==
    LET me == th[t]
    IN  /\ me.pc = "store"
        /\ IF deployed = "app"
           THEN /\ fx_cache' =
                     [rates |-> IF me.got.hasRate THEN Table(me.key, me.t0)
                                ELSE EmptyTable,
                      base |-> me.key, ts |-> me.t0]
                /\ th' = [th EXCEPT ![t].pc = "ret"]
                /\ UNCHANGED <<FX_CACHE, FX_CACHE_PAIRS>>
           ELSE IF deployed = "init"
           THEN /\ FX_CACHE' = [FX_CACHE EXCEPT !.data = me.got]
                /\ th' = [th EXCEPT ![t].pc = "store_ts"]
                /\ UNCHANGED <<fx_cache, FX_CACHE_PAIRS>>
           ELSE /\ FX_CACHE_PAIRS' =
                     [FX_CACHE_PAIRS EXCEPT !.data[me.key] =
                        [rate |-> IF me.got.hasRate
                                  THEN UpstreamRate(me.got.from, "NGN", me.t0)
                                  ELSE DEFAULT_RATE,
                         at |-> me.t0]]
                /\ th' = [th EXCEPT ![t].pc = "store_ts"]
                /\ UNCHANGED <<fx_cache, FX_CACHE>>
        /\ UNCHANGED Others

\* the write of the timestamp (59, 102); appInfo then goes on with its local
\* fx_rate
t_store_ts(t) ==
    LET me == th[t]
    IN  /\ me.pc = "store_ts"
        /\ IF deployed = "init"
           THEN /\ FX_CACHE' = [FX_CACHE EXCEPT !.timestamp = me.t0]
                /\ th' = [th EXCEPT ![t].pc = "ret"]
                /\ UNCHANGED <<fx_cache, FX_CACHE_PAIRS>>
           ELSE /\ FX_CACHE_PAIRS' = [FX_CACHE_PAIRS EXCEPT !.timestamp = me.t0]
                /\ th' = [th EXCEPT ![t] =
                            [me EXCEPT !.pc = "done", !.status = 200, !.ret = me.got]]
                /\ UNCHANGED <<fx_cache, FX_CACHE>>
        /\ UNCHANGED Others

\* the return statement reads the cache again (app.py 50, 66, 70;
\* __init__.py 49, 60)
t_return(t) ==
    /\ th[t].pc = "ret"
    /\ th' = [th EXCEPT ![t] =
                [th[t] EXCEPT !.pc = "done", !.status = 200, !.ret = CacheAsData]]
    /\ UNCHANGED <<Others, fx_cache, FX_CACHE, FX_CACHE_PAIRS>>

NextConc ==
    \/ Tick
    \/ \E t \in Threads, key \in Bases \cup AllPairs : t_begin(t, key)
    \/ \E t \in Threads : t_check(t)
    \/ \E t \in Threads, out \in {"ok", "exc"} : t_call(t, out)
    \/ \E t \in Threads : t_store(t)
    \/ \E t \in Threads : t_store_ts(t)
    \/ \E t \in Threads : t_return(t)

InitConc == InitFx /\ BASE_URL = TRUE

SpecConc == InitConc /\ [][NextConc]_vars

\* C8: when requests refresh the cache concurrently, a request whose fetch
\* succeeded returns what it fetched, a request served from the cache
\* returns a value of its own key, and once no request is in progress the
\* cache holds one fetched result with the timestamp of that same fetch.
C8_RaceOnlyWastesCalls ==
    /\ \A t \in Threads :
         (th[t].pc = "done" /\ th[t].status = 200)
           => /\ th[t].out \in {"ok", "nokey"} => th[t].ret = th[t].got
              /\ (th[t].out = "" /\ deployed # "init" /\ th[t].ret.hasRate)
                    => th[t].ret.key = th[t].key
    /\ (\A t \in Threads : th[t].pc \in {"idle", "done"})
         => IF deployed = "app"
            THEN fx_cache.rates # EmptyTable
                   => (fx_cache.rates.base = fx_cache.base
                       /\ fx_cache.rates.at = fx_cache.ts)
            ELSE IF deployed = "init"
            THEN FX_CACHE.data # NoData => FX_CACHE.data.at = FX_CACHE.timestamp
            ELSE (\E k \in AllPairs : FX_CACHE_PAIRS.data[k] # NoEntry)
                   => \E k \in AllPairs :
                        FX_CACHE_PAIRS.data[k].at = FX_CACHE_PAIRS.timestamp

(* ============================== claims ================================= *)
\* the handlers that look a rate up, and those that convert an amount
Lookups ==
    {"api_fx_latest", "api_simulate", "get_exchange", "simulate_transaction",
     "post_exchange"}

Simulations == {"api_simulate", "simulate_transaction", "post_exchange"}

Calculations == {"api_calculate"} \cup Simulations

\* the TTL of the application that serves
Ttl ==
    IF deployed = "app" THEN FX_TTL_SECONDS
    ELSE IF deployed = "init" THEN GET_EXCHANGE_TTL
    ELSE FX_CACHE_TTL

\* the request ran the rate lookup to an answer or to an upstream call
Looked(r) == r.handler \in Lookups /\ (r.hasRate \/ r.fxCalls > 0)

\* C1: a lookup never returns a cached rate that was itself fetched TTL or
\* more seconds ago unless it attempted an upstream refresh during the lookup.
C1_NoStaleRateWithoutRefresh ==
    (resp.hasRate /\ resp.rateAt >= 0 /\ resp.at - resp.rateAt >= Ttl)
        => resp.fxCalls > 0

\* C2: every rate or rate table a lookup or conversion returns was fetched
\* for the requested pair or base.
C2_RateIsForRequestedKey ==
    (resp.handler \in Lookups /\ resp.hasRate /\ resp.rateKey # "")
        => resp.rateKey = resp.reqKey

\* C3: after a successful lookup for a key, the next lookup (or conversion)
\* for the same key within the TTL window makes no upstream FX call and
\* returns the identical rate.
C3_SecondLookupServedFromCache ==
    [][(/\ resp.handler \in Lookups /\ resp.status = 200 /\ resp.hasRate
        /\ resp.rateKey = resp.reqKey
        /\ resp'.seq # resp.seq /\ Looked(resp')
        /\ resp'.reqKey = resp.reqKey
        /\ resp'.at - resp.at < Ttl)
       => (/\ resp'.fxCalls = 0 /\ resp'.hasRate
           /\ resp'.rate = resp.rate /\ resp'.rateAt = resp.rateAt)]_vars

\* C4: for an amount <= 0 a calculation or simulation fails with 400, having
\* made no upstream call, written no record and left the rate cache alone
\* (in a deployment whose BASE_URL is configured).
C4_NonPositiveAmountRejected ==
    (resp.handler \in Calculations /\ resp.amount <= 0 /\ BASE_URL)
        => (/\ resp.status = 400
            /\ resp.fxCalls = 0 /\ resp.feeCalls = 0
            /\ resp.wrote = 0 /\ ~resp.cacheChanged)

\* C5: a calculation or simulation (of a valid amount) with an unknown fee
\* plan id ends in 400 and makes no upstream call.
C5_UnknownFeePlanRejected ==
    (resp.handler \in {"api_calculate", "api_simulate"}
     /\ resp.amount > 0 /\ resp.fee_plan_id \notin DOMAIN FEES)
        => (resp.status = 400 /\ resp.fxCalls = 0 /\ resp.feeCalls = 0)

\* the entry the lookup for key consults holds a rate fetched less than TTL
\* seconds ago
ConsultedEntryFresh(key) ==
    IF deployed = "app"
    THEN /\ fx_cache.rates # EmptyTable /\ fx_cache.base = key
         /\ now - fx_cache.rates.at < Ttl
    ELSE IF deployed = "init"
    THEN FX_CACHE.data # NoData /\ now - FX_CACHE.data.at < Ttl
    ELSE /\ key \in AllPairs
         /\ FX_CACHE_PAIRS.data[key] # NoEntry
         /\ now - FX_CACHE_PAIRS.data[key].at < Ttl

\* C6: a lookup that finds the cache empty or its entry expired makes
\* exactly one upstream FX call, and no request calls an upstream twice.
C6_ExactlyOneUpstreamCallOnMiss ==
    [][(resp'.seq # resp.seq)
       => (/\ resp'.fxCalls <= 1 /\ resp'.feeCalls <= 1
           /\ (Looked(resp') /\ ~ConsultedEntryFresh(resp'.reqKey))
                 => resp'.fxCalls = 1)]_vars

\* the rate cache of the serving application holds no value
CacheEmpty ==
    IF deployed = "app" THEN fx_cache.rates = EmptyTable
    ELSE IF deployed = "init" THEN FX_CACHE.data = NoData
    ELSE \A k \in AllPairs : FX_CACHE_PAIRS.data[k] = NoEntry

\* C7: with no cached value, a lookup or simulation whose upstream FX call
\* fails answers 500 or 503 and never 200 with a rate.
C7_UpstreamFailureSurfaces ==
    [][(/\ CacheEmpty /\ resp'.seq # resp.seq
        /\ resp'.handler \in Lookups
        /\ resp'.fxOutcome \in {"errjson", "exc"})
       => (resp'.status \in {500, 503} /\ ~resp'.hasRate)]_vars

\* C9: a simulation whose destination has no rate in the fetched answer
\* fails with 400 unsupported_currency listing the supported currencies; it
\* never succeeds with a default rate.
C9_UnsupportedDestinationRejected ==
    (resp.handler \in Simulations /\ resp.destAbsent)
        => (/\ resp.status = 400 /\ resp.error = "unsupported_currency"
            /\ resp.to \notin resp.supported)

Within(x, y, tol) == x - y <= tol /\ y - x <= tol

\* half a cent, the precision of round(x, 2)
HalfCent == 100 \div 2

HasBreakdown(r) == r.handler \in Calculations /\ r.status = 200 /\ r.amount > 0

C11_ConvertedRoundedToCents ==
    (/\ resp.handler \in Simulations /\ resp.status = 200
     /\ resp.amount > 0 /\ resp.amount >= resp.total_fee)
        => resp.converted = RoundCents((resp.amount - resp.total_fee) * resp.rate)

\* the sequence s is an initial part of the sequence t
IsPrefix(s, t) == Len(s) <= Len(t) /\ \A i \in 1..Len(s) : t[i] = s[i]

\* C12: each successful simulation appends exactly one referral record, with
\* an identifier and the fields of the returned breakdown; a failed simulation
\* appends none; a listing of the referrals returns the stored records.
C12_SimulationRecordsReferral ==
    [][(resp'.seq # resp.seq)
       => /\ (resp'.handler \in Simulations /\ resp'.status = 200
               /\ resp'.amount > 0)
               => /\ Len(referrals') = Len(referrals) + 1
                  /\ IsPrefix(referrals, referrals')
                  /\ LET r == referrals'[Len(referrals')]
                     IN  /\ r.id > 0
                         /\ r.amount = resp'.amount
                         /\ r.fee_collected = resp'.total_fee
                         /\ r.exchange_rate = resp'.rate
                         /\ r.converted_amount = resp'.converted
                         /\ r.referral_bonus = resp'.bonus
          /\ (resp'.handler \in Simulations /\ resp'.status # 200)
               => referrals' = referrals
          /\ (resp'.handler = "get_referrals") => resp'.listed = referrals']_vars

C14_ChatPersistsBothTurns ==
    [][(/\ resp'.seq # resp.seq /\ resp'.handler = "chat"
        /\ resp'.message # "" /\ ~resp'.dbFailed)
       => /\ Len(chat_messages') = Len(chat_messages) + 2
          /\ IsPrefix(chat_messages, chat_messages')
          /\ LET user == chat_messages'[Len(chat_messages) + 1]
                 assistant == chat_messages'[Len(chat_messages) + 2]
             IN  /\ user.role = "user" /\ user.content = resp'.message
                 /\ user.swap_tag = resp'.swap_tag
                 /\ assistant.role = "assistant"
                 /\ assistant.content = resp'.reply
                 /\ assistant.swap_tag = resp'.swap_tag]_vars

\* C15: every chat request with a non-empty message (whose commits succeed)
\* is answered 200 with a reply, whether the chat service is configured,
\* answers or fails.
C15_ChatServiceFailureMasked ==
    (resp.handler = "chat" /\ resp.message # "" /\ ~resp.dbFailed)
        => (resp.status = 200 /\ resp.reply # "")

\* C16: a chat request of which a commit failed is still answered 200 with
\* the reply.
C16_DbFailureDoesNotAbortChat ==
    (resp.handler = "chat" /\ resp.dbFailed)
        => (resp.status = 200 /\ resp.reply # "")

\* the rows of the table a listing for swap_tag is about
Tagged(swap_tag) ==
    {i \in 1..Len(chat_messages) :
        swap_tag # "" => chat_messages[i].swap_tag = swap_tag}

\* C17: a chat history answered 200 lists rows of the table, none twice, in
\* ascending order of timestamp and at most limit of them; asked with a tag
\* it lists rows of exactly that tag only, asked without one rows of any
\* tag; it lists all such rows when they are at most limit, and else limit
\* rows none of which is later than a row left out.
C17_HistoryFilteredOrderedCapped ==
    [][(/\ resp'.seq # resp.seq /\ resp'.handler = "chat_history"
        /\ resp'.status = 200)
       => LET out == resp'.listed
              rows == Tagged(resp'.swap_tag)
              shown == {i \in rows : \E k \in 1..Len(out) : out[k] = chat_messages[i]}
          IN  /\ Len(out) <= resp'.limit
              /\ resp'.count = Len(out)
              /\ \A k \in 1..Len(out) : \E i \in rows : out[k] = chat_messages[i]
              /\ \A k, l \in 1..Len(out) :
                    k < l => /\ out[k].id # out[l].id
                             /\ out[k].timestamp <= out[l].timestamp
              /\ Len(out) = (IF Cardinality(rows) < resp'.limit
                             THEN Cardinality(rows) ELSE resp'.limit)
              /\ \A i \in shown, j \in rows \ shown :
                    chat_messages[i].timestamp <= chat_messages[j].timestamp]_vars

\* reached: a history asked for one tag with limit 1 lists one row of that
\* tag, the table holding another row of the tag and rows of another tag
C17_Witness ==
    /\ resp.handler = "chat_history" /\ resp.status = 200
    /\ resp.swap_tag # "" /\ resp.limit = 1 /\ Len(resp.listed) = 1
    /\ resp.listed[1].swap_tag = resp.swap_tag
    /\ Cardinality(Tagged(resp.swap_tag)) > 1
    /\ \E i \in 1..Len(chat_messages) : chat_messages[i].swap_tag # resp.swap_tag

\* C18: every request is answered, also when an upstream it calls never
\* answers: the call times out and the handler goes on to a response.
C18_EveryRequestAnswered ==
    resp.handler # "" => (~resp.hung /\ resp.status # 0)

\* C19: a conversion of a valid amount whose fee schedule was fetched with a
\* shape other than the expected one completes with 200, the fee fields
\* that could not be read being zero.
C19_UnrecognizedFeeShapeFallsBackToZero ==
    (/\ resp.handler \in {"simulate_transaction", "post_exchange"}
     /\ resp.amount > 0 /\ resp.feeOutcome \in FeeShapes \ {"ok"})
        => /\ resp.status = 200
           /\ resp.feeOutcome \in {"noproducts", "noservices", "norate", "badrate"}
                => resp.percent_fee = 0
           /\ resp.feeOutcome \in {"noproducts", "noservices", "nomin", "badmin"}
                => resp.fixed_fee = 0

\* C20: a successful simulation carries a referral bonus exactly when the
\* request carried a swap tag, the bonus then being
\* round(total_fee * REFERRAL_BONUS_RATE, 2); a request without a tag stores
\* no referral.
C20_BonusOnlyWithTag ==
    (resp.handler \in Simulations /\ resp.status = 200 /\ resp.amount > 0)
        => /\ resp.hasBonus <=> resp.swap_tag \notin {"", "N/A"}
           /\ resp.hasBonus
                => resp.bonus = RoundCents(PercentOf(resp.total_fee, REFERRAL_BONUS_RATE))
           /\ resp.swap_tag \in {"", "N/A"} => resp.wrote = 0

\* the upstream call raised in the handler: a connection error, a timeout,
\* a non-2xx status or a body that is no JSON
FxFailures == {"errjson", "exc", Hang}

\* C21: a request whose upstream FX call fails leaves the rate cache of the
\* application as it was (values, key and timestamp), whether it is then
\* answered with the stale value or with an error; the cache changes only
\* in a request whose FX call was answered 2xx.
C21_FailedLookupLeavesCacheAlone ==
    [][(resp'.seq # resp.seq)
       => /\ resp'.fxOutcome \in FxFailures
               => UNCHANGED <<fx_cache, FX_CACHE, FX_CACHE_PAIRS>>
          /\ ~(UNCHANGED <<fx_cache, FX_CACHE, FX_CACHE_PAIRS>>)
               => (resp'.fxCalls = 1 /\ resp'.fxOutcome \in {"ok", "nokey"})]_vars

\* reached: a lookup whose upstream call failed while the cache held a value
C21_Witness ==
    /\ resp.handler \in Lookups /\ resp.fxCalls = 1
    /\ resp.fxOutcome \in FxFailures
    /\ ~CacheEmpty

\* C22: no calculation or simulation of an amount > 0 answered 200 carries a
\* negative net amount or a negative converted amount, and no stored
\* referral has a negative converted amount.
C22_NoNegativeAmounts ==
    /\ (resp.handler \in Calculations /\ resp.status = 200 /\ resp.amount > 0)
          => (resp.net_amount >= 0 /\ resp.converted >= 0)
    /\ \A i \in 1..Len(referrals) :
          referrals[i].amount > 0 => referrals[i].converted_amount >= 0

====
